---- MODULE Spec2Model ----
(***************************************************************************)
(* Terrain generation, terrain store and block codec of the game           *)
(* (src/src/world.rs, src/src/procedural_functions.rs).                    *)
(*                                                                         *)
(* Grids are scaled down: CHUNK_WIDTH and CHUNK_HEIGHT are 128 and 64 in   *)
(* world.rs:16-17, far beyond what can be enumerated, so the model keeps   *)
(* the names and uses smaller values that still let every guard of the     *)
(* builders (x > 4, y > 4, y < CHUNK_HEIGHT - 1) be passed and keep every  *)
(* literal range of the builders (hill heights below 16, sand depths       *)
(* below 31, biome boundaries below 12) inside the grid.                   *)
(*                                                                         *)
(* Option<T> is a sequence of length 0 (None) or 1 (Some).                 *)
(* f32 values are exact rationals: noise in hundredths, vein thickness in  *)
(* quarters, squared distances as <<numerator, denominator>>.              *)
(***************************************************************************)
EXTENDS Integers, Sequences, FiniteSets, TLC

VARIABLES
    base_seed,      \* the base seed every generator is seeded from
    world,          \* what the builders return under base_seed, tabulated
    destroyed,      \* number of blocks destroyed so far
    terrain,        \* Terrain.chunks: sequence of Chunk
    op,             \* the last operation and what it returned
    built,          \* the chunk last produced by a builder, with the locals it used
    next_entity,    \* next entity id Commands::spawn hands out
    sent,           \* the value last given to the encoder
    wire,           \* the bytes the encoder produced
    received        \* the result of decoding wire

vars == <<base_seed, world, destroyed, terrain, op, built, next_entity, sent, wire, received>>

\* ---------------------------------------------------------------- bounds
CHUNK_HEIGHT == 32
CHUNK_WIDTH == 16
MaxSeed == 23
MaxStoreSeed == 0
MaxPlayerDepth == 1
MaxPlayers == 2
MaxVeins == 2
MaxDestroyed == 1
MaxClientChunks == 2

\* ------------------------------------------------------------- constants
GEN_CHUNKS_AHEAD == 3
PERLIN_CAVE_THRESHOLD == 25
FullChunkWidth == 128

Rows == 0 .. (CHUNK_HEIGHT - 1)
Cols == 0 .. (CHUNK_WIDTH - 1)

None == <<>>
Some(v) == <<v>>
IsSome(o) == Len(o) = 1
Unwrap(o) == o[1]

\* ------------------------------------------------------------ block types
BlockTypes ==
    << "Sand", "Limestone", "Basalt", "Granite", "Diabase", "Gabbro",
       "Clay", "Coal", "Iron", "Quartz", "Labradorite", "Peridot",
       "CaveVoid", "PalmTreeBlock", "Leaves", "Trunk" >>

BiomeTypes == << "Sand", "Sedimentary", "Basalt", "Felsic", "Mafic", "Ultramafic" >>

\* a mapping in which Felsic shares the primary block of Basalt
primary_block_shared(biome) ==
    CASE biome = "Sand" -> "Sand"
      [] biome = "Sedimentary" -> "Limestone"
      [] biome \in {"Basalt", "Felsic"} -> "Basalt"
      [] biome = "Mafic" -> "Diabase"
      [] biome = "Ultramafic" -> "Gabbro"

primary_block(biome) ==
    CASE biome = "Sand" -> "Sand"
      [] biome = "Sedimentary" -> "Limestone"
      [] biome = "Basalt" -> "Basalt"
      [] biome = "Felsic" -> "Granite"
      [] biome = "Mafic" -> "Diabase"
      [] biome = "Ultramafic" -> "Gabbro"

ore_block(biome) ==
    CASE biome = "Sand" -> "Clay"
      [] biome = "Sedimentary" -> "Coal"
      [] biome = "Basalt" -> "Iron"
      [] biome = "Felsic" -> "Quartz"
      [] biome = "Mafic" -> "Labradorite"
      [] biome = "Ultramafic" -> "Peridot"

OreBlocks == { ore_block(BiomeTypes[i]) : i \in 1 .. Len(BiomeTypes) }

\* Block { block_type, entity }
Block(block_type, entity) == [block_type |-> block_type, entity |-> entity]

\* Block::new
BlockNew(block_type) == Block(block_type, None)

\* [[None; CHUNK_WIDTH]; CHUNK_HEIGHT]
EmptyBlocks == [y \in Rows |-> [x \in Cols |-> None]]

\* Chunk { blocks, chunk_number }
Chunk(blocks, chunk_number) == [blocks |-> blocks, chunk_number |-> chunk_number]

\* ------------------------------------------------- seeded random generators
\* The hash and the generator are library code; what the program relies on is
\* that each is a fixed function of its seed.  Mix is such a function.
Mix(a, b) == ((a + 3) * (b + 7) + a * a + 5 * b) % 1009

RECURSIVE HashAll(_, _)
HashAll(h, data) ==
    IF data = <<>> THEN h ELSE HashAll(Mix(h, Head(data)), Tail(data))

\* generate_seed: base_seed hashed first, then each datum in order
generate_seed(seed, additional_data) == HashAll(Mix(7, seed % 1009), additional_data)

\* the k-th raw draw (k = 1, 2, ..) of StdRng::seed_from_u64(seed)
Draw(seed, k) == Mix(Mix(seed % 1009, k), k + 1)

\* rand.gen_range(low..high) as the k-th draw
GenRange(seed, k, low, high) == low + (Draw(seed, k) % (high - low))

\* generate_random_values: `amount` draws in [low, high)
generate_random_values(seed, amount, low, high) ==
    [k \in 1 .. amount |-> GenRange(seed, k, low, high)]

\* generate_random_vein_count: a binomial draw seeded from [chunk_number]; the
\* model caps the count at MaxVeins
generate_random_vein_count(seed, chunk_number) ==
    Draw(generate_seed(seed, <<chunk_number>>), 1) % (MaxVeins + 1)

\* generate_random_vein
generate_random_vein(seed, chunk_number, vein_number) ==
    LET s == generate_seed(seed, <<chunk_number, vein_number>>)
        start_x == GenRange(s, 1, 0, CHUNK_WIDTH)
        start_y == GenRange(s, 2, 0, CHUNK_HEIGHT)
        sign == IF Draw(s, 4) % 2 = 0 THEN 1 ELSE -1
    IN  [ chunk_number |-> chunk_number,
          start_x |-> start_x,
          start_y |-> start_y,
          end_x |-> start_x + GenRange(s, 3, 10, 32) * sign,
          end_y |-> start_y + GenRange(s, 5, 5, 16),
          thickness_sq |-> GenRange(s, 6, 4, 12) ]   \* quarters: [1.0, 3.0)

\* Vein::new
VeinNew(chunk_number, vein_number) ==
    generate_random_vein(base_seed, chunk_number, vein_number)

\* generate_chunk_biome_change: a seeded decision, Some(biome) or None
generate_chunk_biome_change(seed, chunk_number) ==
    LET s == generate_seed(seed, <<chunk_number, 99>>)
    IN  IF Draw(s, 1) % 3 = 0
        THEN Some(BiomeTypes[1 + (Draw(s, 2) % Len(BiomeTypes))])
        ELSE None

\* generate_perlin_noise(depth, seed)[y][x], in hundredths: a smooth field,
\* high around a seeded centre and falling off with distance
generate_perlin_noise(depth, seed, y, x) ==
    LET s == generate_seed(seed, <<depth, 77>>)
        cx == GenRange(s, 1, 0, CHUNK_WIDTH)
        cy == GenRange(s, 2, 0, CHUNK_HEIGHT)
        dx == IF x > cx THEN x - cx ELSE cx - x
        dy == IF y > cy THEN y - cy ELSE cy - y
        peak == GenRange(s, 3, 0, 90)
        v == peak - 12 * dx - 9 * dy + (Draw(s, 4 + y * CHUNK_WIDTH + x) % 10)
    IN  IF v < 0 THEN 0 ELSE v

\* dist_sq
dist_sq(x1, y1, x2, y2) == (x1 - x2) * (x1 - x2) + (y1 - y2) * (y1 - y2)

\* dist_to_vein: squared distance from (x, y) to the vein's segment, the
\* projection clamped to [0, 1]; returned as <<numerator, denominator>>
dist_to_vein(vein, x, y) ==
    LET vx1 == vein.start_x
        vx2 == vein.end_x
        vy1 == vein.start_y
        vy2 == vein.end_y
        len_sq == dist_sq(vx1, vy1, vx2, vy2)
        dot == (x - vx1) * (vx2 - vx1) + (y - vy1) * (vy2 - vy1)
    IN  IF len_sq = 0 THEN <<dist_sq(x, y, vx1, vy1), 1>>
        ELSE IF dot <= 0 THEN <<dist_sq(x, y, vx1, vy1), 1>>
        ELSE IF dot >= len_sq THEN <<dist_sq(x, y, vx2, vy2), 1>>
        ELSE <<dist_sq(x, y, vx1, vy1) * len_sq - dot * dot, len_sq>>

\* dist < (vein.thickness_sq / 2.)
InVein(vein, x, y) ==
    LET d == dist_to_vein(vein, x, y)
    IN  d[1] * 8 < vein.thickness_sq * d[2]

\* a spacing of width / count columns rounded up, and of two columns at least
slice_step_ceil(width, count) ==
    IF width > count THEN (width + count - 1) \div count ELSE 2

\* (CHUNK_WIDTH / r.len()) + 1: the columns between two control points, for a
\* chunk `width` columns wide
slice_step(width, count) == (width \div count) + 1

\* x_int: the control point at or before column x, counted from 0
slice_index(width, x, count) == x \div slice_step(width, count)

\* slice_pos_x(x, r).round(): smoothstep interpolation between r[i] and r[i+1]
\* (r is 1-based here), rounded half up; all values are positive
slice_pos_x_round(x, r) ==
    LET step == slice_step(CHUNK_WIDTH, Len(r))
        x_int == slice_index(CHUNK_WIDTH, x, Len(r))
        k == x % step
        den == step * step * step
        u == k * k * (3 * step - 2 * k)
        num == r[x_int + 1] * (den - u) + r[x_int + 2] * u
    IN  (2 * num + den) \div (2 * den)

\* ------------------------------------------------------------ Chunk::new
\* the vein list of Chunk::new: one entry per vein counted in the previous
\* chunk, then one per vein counted in this chunk
vein_list(depth) ==
    LET prev_count == IF depth > 0
                      THEN generate_random_vein_count(base_seed, depth - 1)
                      ELSE 0
        prev == [v \in 1 .. prev_count |-> VeinNew(depth, v - 1)]
        curr == [v \in 1 .. generate_random_vein_count(base_seed, depth) |->
                    VeinNew(depth, v - 1)]
    IN  prev \o curr

\* a search that asks the chunk above only
prev_biome_walk_one_step(curr_search_depth, calls) ==
    [biome |-> generate_chunk_biome_change(base_seed, curr_search_depth),
     calls |-> calls + 1]

\* the while loop of the previous-biome search, from curr_search_depth on;
\* calls counts the decision calls made so far
RECURSIVE prev_biome_walk(_, _)
prev_biome_walk(curr_search_depth, calls) ==
    LET found == generate_chunk_biome_change(base_seed, curr_search_depth)
    IN  IF IsSome(found) \/ curr_search_depth = 0
        THEN [biome |-> found, calls |-> calls + 1]
        ELSE prev_biome_walk(curr_search_depth - 1, calls + 1)

\* a search that starts its walk at the chunk itself
prev_biome_search_from_depth(depth) ==
    IF depth > 0
    THEN prev_biome_walk(depth, 0)
    ELSE [biome |-> None, calls |-> 0]

\* prev_biome_search after the loop, and the number of decision calls made
prev_biome_search(depth) ==
    IF depth > 0
    THEN prev_biome_walk(depth - 1, 0)
    ELSE [biome |-> None, calls |-> 0]

unwrap_or(o, default) == IF IsSome(o) THEN Unwrap(o) ELSE default

\* the locals Chunk::new computes before its cell loop
chunk_locals(depth) ==
    LET search == prev_biome_search(depth)
        prev_biome == unwrap_or(search.biome, "Sand")
        average_biome_change_depth ==
            generate_random_values(generate_seed(base_seed, <<depth, 432>>), 1, 3, 10)[1]
    IN  [ depth |-> depth,
          veins |-> vein_list(depth),
          prev_biome |-> prev_biome,
          calls |-> search.calls,
          biome_change |->
              unwrap_or(generate_chunk_biome_change(base_seed, depth), prev_biome),
          biome_change_depths |->
              generate_random_values(generate_seed(base_seed, <<depth, 234>>), 64,
                                     average_biome_change_depth - 2,
                                     average_biome_change_depth + 2) ]

\* biome_change_ypos for column x
biome_change_ypos(l, x) == slice_pos_x_round(x, l.biome_change_depths) - 1

\* a selection in which the boundary row still belongs to the previous biome
row_biome_above(l, x, y) ==
    IF y > biome_change_ypos(l, x) THEN l.biome_change ELSE l.prev_biome

\* the biome a row selects
row_biome(l, x, y) ==
    IF y >= biome_change_ypos(l, x) THEN l.biome_change ELSE l.prev_biome

\* the vein test of Chunk::new for one vein at cell (x, y)
vein_hits(l, vein, x, y) ==
    /\ l.depth > 0
    /\ (vein.chunk_number = l.depth - 1 \/ vein.chunk_number = l.depth)
    /\ LET y_offset == IF l.depth > vein.chunk_number THEN CHUNK_HEIGHT ELSE 0
       IN  InVein(vein, x, y + y_offset)

in_some_vein(l, x, y) ==
    \E i \in 1 .. Len(l.veins) : vein_hits(l, l.veins[i], x, y)

\* a selection in which the vein override is applied after the cave override
select_block_type_vein_last(primary, ore, in_vein, noise) ==
    LET after_cave == IF noise > PERLIN_CAVE_THRESHOLD THEN "CaveVoid" ELSE primary
    IN  IF in_vein THEN ore ELSE after_cave

\* block_type of a cell after the biome rule, the vein override and the cave
\* override, in that order
select_block_type(primary, ore, in_vein, noise) ==
    LET after_vein == IF in_vein THEN ore ELSE primary
    IN  IF noise > PERLIN_CAVE_THRESHOLD THEN "CaveVoid" ELSE after_vein

\* structure_fit
structure_fit(blocks, x, y) ==
    /\ x > 4
    /\ x < CHUNK_WIDTH
    /\ blocks[y][x - 3] = None
    /\ blocks[y][x - 1] = None
    /\ blocks[y + 1][x - 1] = None
    /\ blocks[y + 1][x - 3] = None
    /\ blocks[y + 2][x - 1] = None
    /\ blocks[y + 2][x - 3] = None

\* the clearance search: the deepest row <= y of column x - 2 holding a block,
\* 0 when there is none
clearance_max(blocks, x, y) ==
    LET solid == { h \in 0 .. y : blocks[h][x - 2] # None }
    IN  IF solid = {} THEN 0 ELSE CHOOSE h \in solid : \A g \in solid : g <= h

\* the trunk loop: rows max + 1 ..= y of column x - 2
write_trunk(blocks, x, y, max) ==
    [h \in Rows |->
        IF h > max /\ h <= y
        THEN [blocks[h] EXCEPT ![x - 2] = Some(BlockNew("Trunk"))]
        ELSE blocks[h]]

\* the cells <<row, column>> structure_fit reads
structure_fit_cells(x, y) ==
    { <<y, x - 3>>, <<y, x - 1>>, <<y + 1, x - 1>>, <<y + 1, x - 3>>,
      <<y + 2, x - 1>>, <<y + 2, x - 3>> }

\* the cells <<row, column>> the trunk loop writes
trunk_cells(x, y, max) == { <<h, x - 2>> : h \in max + 1 .. y }

\* leaf writes whose right-hand leaves are one column further right
leaf_cells_shifted(x, max) ==
    { <<max + 1, x + 1>>, <<max + 1, x - 2>>, <<max + 1, x - 3>>,
      <<max + 2, x + 1>>, <<max + 2, x - 3>> }

\* the cells <<row, column>> the five leaf writes write
leaf_cells(x, max) ==
    { <<max + 1, x - 1>>, <<max + 1, x - 2>>, <<max + 1, x - 3>>,
      <<max + 2, x - 1>>, <<max + 2, x - 3>> }

\* the trunk loop and the five leaf writes
write_tree(blocks, x, y, max) ==
    LET leaf == Some(BlockNew("Leaves"))
        trunk == write_trunk(blocks, x, y, max)
    IN  [r \in Rows |-> [c \in Cols |->
            IF <<r, c>> \in leaf_cells(x, max) THEN leaf ELSE trunk[r][c]]]

\* max after the height draw: the draw is made when y - max > 2
tree_top(x, y, max) ==
    IF y - max > 2 THEN generate_random_values(base_seed + x, 2, max, y)[1] ELSE max

\* a void branch that stores the cave void as a block
place_void_stored(blocks, x, y, primary_block_type) ==
    [blocks EXCEPT ![y][x] = Some(BlockNew("CaveVoid"))]

\* the else branch of the cell loop: the cell is cave void
place_void(blocks, x, y, primary_block_type) ==
    IF /\ y > 4
       /\ y < CHUNK_HEIGHT - 1
       /\ x > 4
       /\ blocks[y + 1][x - 2] # None
       /\ Unwrap(blocks[y + 1][x - 2]).block_type = primary_block_type
    THEN LET max == tree_top(x, y, clearance_max(blocks, x, y))
         IN  IF y - max > 2 /\ structure_fit(blocks, x, max)
             THEN write_tree(blocks, x, y, max)
             ELSE [blocks EXCEPT ![y][x] = None]
    ELSE [blocks EXCEPT ![y][x] = None]

\* one iteration of the cell loop
fill_cell(blocks, l, x, y) ==
    LET biome == row_biome(l, x, y)
        block_type == select_block_type(primary_block(biome), ore_block(biome),
                                        in_some_vein(l, x, y),
                                        generate_perlin_noise(l.depth, base_seed, y, x))
    IN  IF block_type # "CaveVoid"
        THEN [blocks EXCEPT ![y][x] = Some(BlockNew(block_type))]
        ELSE place_void(blocks, x, y, primary_block(biome))

\* the cell loop (for x, for y): iterations lo .. hi in order, numbered
\* x * CHUNK_HEIGHT + y.  The range is split in halves and the grid is looked
\* at before each half, which only keeps the evaluation shallow.
RECURSIVE fill_cells(_, _, _, _)
fill_cells(blocks, l, lo, hi) ==
    IF DOMAIN blocks = {} THEN blocks
    ELSE IF lo = hi
    THEN fill_cell(blocks, l, lo \div CHUNK_HEIGHT, lo % CHUNK_HEIGHT)
    ELSE LET mid == (lo + hi) \div 2
         IN  fill_cells(fill_cells(blocks, l, lo, mid), l, mid + 1, hi)

\* Chunk::new
ChunkNew(depth) ==
    Chunk(fill_cells(EmptyBlocks, chunk_locals(depth), 0, CHUNK_WIDTH * CHUNK_HEIGHT - 1),
          depth)

\* Chunk::empty
ChunkEmpty(chunk_number) == Chunk(EmptyBlocks, chunk_number)

\* -------------------------------------------------------- Chunk::new_surface
\* perlin_slice(seed, 32, CHUNK_WIDTH, 8)[x]: the second octave of the hill line
perlin_slice(seed, x) == Draw(seed, x + 1) % 8

\* the locals Chunk::new_surface computes before its column loop
surface_locals ==
    [ random_vals |-> generate_random_values(base_seed, 16, 3, 16),
      random_sand_depths |-> generate_random_values(base_seed, 32, 16, 31),
      random_trees |->
          generate_random_values(base_seed, CHUNK_WIDTH, 0, CHUNK_WIDTH \div 8),
      veins |-> [v \in 1 .. generate_random_vein_count(base_seed, 0) |->
                    VeinNew(0, v - 1)] ]

hill_top(l, x) ==
    slice_pos_x_round(x, l.random_vals) + perlin_slice(base_seed + 25, x) - 1

sand_depth(l, x) == slice_pos_x_round(x, l.random_sand_depths) - 1

\* the vein test of Chunk::new_surface for cell (x, y)
surface_in_some_vein(l, x, y) ==
    \E i \in 1 .. Len(l.veins) :
        l.veins[i].chunk_number = 0 /\ InVein(l.veins[i], x, y)

\* a layering in which the row at sand_depth already belongs to the lower layer
surface_block_type_strict(l, x, y) ==
    LET biome == IF y < sand_depth(l, x) THEN "Sand" ELSE "Sedimentary"
    IN  IF surface_in_some_vein(l, x, y) THEN ore_block(biome) ELSE primary_block(biome)

\* block_type of a surface cell
surface_block_type(l, x, y) ==
    LET biome == IF y <= sand_depth(l, x) THEN "Sand" ELSE "Sedimentary"
    IN  IF surface_in_some_vein(l, x, y) THEN ore_block(biome) ELSE primary_block(biome)

\* one iteration of the column loop: the palm block, then rows hill_top ..
surface_column(blocks, l, x) ==
    LET with_tree ==
            IF l.random_trees[x + 1] = 1
            THEN [blocks EXCEPT ![hill_top(l, x) - 1][x] = Some(BlockNew("PalmTreeBlock"))]
            ELSE blocks
    IN  [y \in Rows |->
            IF y >= hill_top(l, x)
            THEN [with_tree[y] EXCEPT ![x] = Some(BlockNew(surface_block_type(l, x, y)))]
            ELSE with_tree[y]]

\* the column loop, from column x on
RECURSIVE surface_columns(_, _, _)
surface_columns(blocks, l, x) ==
    IF DOMAIN blocks = {} \/ x = CHUNK_WIDTH THEN blocks
    ELSE surface_columns(surface_column(blocks, l, x), l, x + 1)

\* Chunk::new_surface
ChunkNewSurface == Chunk(surface_columns(EmptyBlocks, surface_locals, 0), 0)

\* ----------------------------------------------------------------- Terrain
\* the deepest chunk number a player at MaxPlayerDepth makes the server build
MaxChunkNumber == MaxPlayerDepth + GEN_CHUNKS_AHEAD - 1

\* Chunk::new and Chunk::new_surface read nothing but BASE_SEED and their
\* argument, so their results are tabulated once per base seed
World ==
    [ new |-> [depth \in 0 .. MaxChunkNumber |->
                  [chunk |-> ChunkNew(depth), locals |-> chunk_locals(depth)]],
      surface |-> [chunk |-> ChunkNewSurface, locals |-> surface_locals] ]

\* Terrain::empty
TerrainEmpty == <<>>

\* create_surface_chunk
create_surface_chunk(chunks) == Append(chunks, world.surface.chunk)

\* server::create_world: the surface chunk, then Chunk::new(1)
create_world == Append(create_surface_chunk(TerrainEmpty), world.new[1].chunk)

\* (-position.y) as u64 / CHUNK_HEIGHT; the cast saturates at 0
player_chunk_number(position_y) ==
    (IF position_y > 0 THEN 0 ELSE 0 - position_y) \div CHUNK_HEIGHT

\* highest_numbered_chunk_in_terrain
highest_numbered_chunk(chunks) == IF Len(chunks) = 0 THEN 0 ELSE Len(chunks) - 1

\* the offsets loop for one player: the chunk numbers built and pushed
targets_for_player(player, highest) ==
    SelectSeq([k \in 1 .. GEN_CHUNKS_AHEAD |-> player + (k - 1)],
              LAMBDA target : target > highest)

\* the loop over the query: the chunk numbers pushed, in order
RECURSIVE targets_for_players(_, _)
targets_for_players(positions, highest) ==
    IF positions = <<>> THEN <<>>
    ELSE targets_for_player(player_chunk_number(Head(positions)), highest)
            \o targets_for_players(Tail(positions), highest)

\* server::check_generate_new_chunks: terrain.chunks afterwards
check_generate_new_chunks(positions, chunks) ==
    LET targets == targets_for_players(positions, highest_numbered_chunk(chunks))
    IN  chunks \o [k \in 1 .. Len(targets) |-> world.new[targets[k]].chunk]

\* a column check that lets x = CHUNK_WIDTH through
invalid_x_strict(x) == x > CHUNK_WIDTH

\* x >= CHUNK_WIDTH
invalid_x(x) == x >= CHUNK_WIDTH

\* the chunk loop of destroy_block and block_exists: index of the first chunk
\* with that number, 0 when there is none
find_chunk(chunks, chunk_number) ==
    LET hits == { i \in 1 .. Len(chunks) : chunks[i].chunk_number = chunk_number }
    IN  IF hits = {} THEN 0 ELSE CHOOSE i \in hits : \A j \in hits : i <= j

\* a clearing that empties the whole row of the cell
clear_block_row(chunks, i, row, x) ==
    [chunks EXCEPT ![i].blocks[row] = [c \in Cols |-> None]]

\* a clearing that leaves the cell as it is
clear_block_kept(chunks, i, row, x) == chunks

\* *block_opt = None
clear_block(chunks, i, row, x) == [chunks EXCEPT ![i].blocks[row][x] = None]

\* server::destroy_block: what it returns and terrain.chunks afterwards; an
\* index outside the grid panics
destroy_block(x, y, chunks) ==
    LET chunk_number == y \div CHUNK_HEIGHT
        block_y_in_chunk == y % CHUNK_HEIGHT
        i == find_chunk(chunks, chunk_number)
    IN  IF invalid_x(x)
        THEN [kind |-> "InvalidX", block |-> None, chunks |-> chunks]
        ELSE IF i = 0
        THEN [kind |-> "ChunkNotLoaded", block |-> None, chunks |-> chunks]
        ELSE IF ~(block_y_in_chunk \in Rows /\ x \in Cols)
        THEN [kind |-> "Panic", block |-> None, chunks |-> chunks]
        ELSE IF IsSome(chunks[i].blocks[block_y_in_chunk][x])
        THEN [kind |-> "Ok", block |-> chunks[i].blocks[block_y_in_chunk][x],
              chunks |-> clear_block(chunks, i, block_y_in_chunk, x)]
        ELSE [kind |-> "BlockDoesntExist", block |-> None, chunks |-> chunks]

\* a lookup that counts a block only when an entity is attached to it
block_exists_rendered(x, y, chunks) ==
    LET i == find_chunk(chunks, y \div CHUNK_HEIGHT)
    IN  /\ x < CHUNK_WIDTH
        /\ i # 0
        /\ IsSome(chunks[i].blocks[y % CHUNK_HEIGHT][x])
        /\ IsSome(Unwrap(chunks[i].blocks[y % CHUNK_HEIGHT][x]).entity)

\* block_exists: false when x >= CHUNK_WIDTH; else whether the cell of the
\* first chunk with that number holds a block, with or without entity; false
\* when no chunk has that number
block_exists(x, y, chunks) ==
    LET chunk_number == y \div CHUNK_HEIGHT
        block_y_in_chunk == y % CHUNK_HEIGHT
        i == find_chunk(chunks, chunk_number)
    IN  IF x >= CHUNK_WIDTH THEN FALSE
        ELSE IF i = 0 THEN FALSE
        ELSE IsSome(chunks[i].blocks[block_y_in_chunk][x])

\* ------------------------------------------------------------------ server
NoOp == [name |-> "none", x |-> 0, y |-> 0, kind |-> "none", block |-> None,
         players |-> <<>>]
NoBuilt == [kind |-> "none"]
NoValue == [kind |-> "none"]

InitRest ==
    /\ world = World
    /\ destroyed = 0
    /\ op = NoOp
    /\ built = NoBuilt
    /\ next_entity = 0
    /\ sent = NoValue
    /\ wire = <<>>
    /\ received = NoValue

\* the server after create_world
Init ==
    /\ base_seed \in 0 .. MaxStoreSeed
    /\ InitRest
    /\ terrain = create_world

\* the positions the query can yield
PlayerYs == { 0 - (d * CHUNK_HEIGHT + (CHUNK_HEIGHT \div 2)) : d \in 0 .. MaxPlayerDepth }
PlayerLists == UNION { [1 .. n -> PlayerYs] : n \in 0 .. MaxPlayers }

\* one run of the check_generate_new_chunks system
CheckGenerateNewChunks(positions) ==
    /\ terrain' = check_generate_new_chunks(positions, terrain)
    /\ op' = [NoOp EXCEPT !.name = "check_generate_new_chunks",
                          !.players = [k \in 1 .. Len(positions) |->
                                          player_chunk_number(positions[k])]]
    /\ UNCHANGED <<base_seed, world, destroyed, built, next_entity, sent, wire, received>>

\* the block positions a caller asks to destroy
DestroyXs == {0, CHUNK_WIDTH - 1, CHUNK_WIDTH}
DestroyYs == {0} \cup { c * CHUNK_HEIGHT + (CHUNK_HEIGHT - 1) : c \in 0 .. MaxChunkNumber + 1 }

\* one call of destroy_block
DestroyBlock(x, y) ==
    LET r == destroy_block(x, y, terrain)
    IN  /\ sent = NoValue
        /\ r.kind = "Ok" => destroyed < MaxDestroyed
        /\ terrain' = r.chunks
        /\ destroyed' = IF r.kind = "Ok" THEN destroyed + 1 ELSE destroyed
        /\ op' = [NoOp EXCEPT !.name = "destroy_block", !.x = x, !.y = y,
                              !.kind = r.kind, !.block = r.block]
        /\ UNCHANGED <<base_seed, world, built, next_entity, sent, wire, received>>

\* one call of block_exists; it takes the terrain mutably and writes nothing
BlockExists(x, y) ==
    /\ op' = [NoOp EXCEPT !.name = "block_exists", !.x = x, !.y = y,
                          !.kind = IF block_exists(x, y, terrain) THEN "true"
                                   ELSE "false"]
    /\ UNCHANGED <<base_seed, world, destroyed, terrain, built, next_entity, sent,
                   wire, received>>

Next ==
    \/ \E positions \in PlayerLists : CheckGenerateNewChunks(positions)
    \/ \E x \in DestroyXs, y \in DestroyYs : DestroyBlock(x, y)
    \/ \E x \in DestroyXs, y \in DestroyYs : BlockExists(x, y)

Spec == Init /\ [][Next]_vars

\* ------------------------------------------------------------ the builders
InitGen ==
    /\ base_seed \in 0 .. MaxSeed
    /\ InitRest
    /\ terrain = TerrainEmpty

\* a call of Chunk::new(depth); built keeps the result with the locals used
BuildChunk(depth) ==
    /\ built = NoBuilt
    /\ built' = [kind |-> "new", depth |-> depth, chunk |-> world.new[depth].chunk,
                 locals |-> world.new[depth].locals]
    /\ UNCHANGED <<base_seed, world, destroyed, terrain, op, next_entity, sent, wire, received>>

\* a call of Chunk::new_surface()
BuildSurface ==
    /\ built = NoBuilt
    /\ built' = [kind |-> "surface", depth |-> 0, chunk |-> world.surface.chunk,
                 locals |-> world.surface.locals]
    /\ UNCHANGED <<base_seed, world, destroyed, terrain, op, next_entity, sent, wire, received>>

NextGen ==
    \/ \E depth \in 0 .. MaxChunkNumber : BuildChunk(depth)
    \/ BuildSurface

SpecGen == InitGen /\ [][NextGen]_vars

\* -------------------------------------------------------------------- codec
\* bincode's variable-width integer: one byte below 251, else a marker byte
\* and the value in little-endian bytes
encode_varint(u) ==
    IF u < 251 THEN <<u>>
    ELSE IF u < 65536 THEN <<251, u % 256, u \div 256>>
    ELSE <<252, u % 256, (u \div 256) % 256, (u \div 65536) % 256, u \div 16777216>>

decode_varint(bytes, pos) ==
    IF pos > Len(bytes) THEN [ok |-> FALSE, value |-> 0, pos |-> pos]
    ELSE IF bytes[pos] < 251 THEN [ok |-> TRUE, value |-> bytes[pos], pos |-> pos + 1]
    ELSE IF bytes[pos] = 251 /\ pos + 2 <= Len(bytes)
    THEN [ok |-> TRUE, value |-> bytes[pos + 1] + 256 * bytes[pos + 2], pos |-> pos + 3]
    ELSE IF bytes[pos] = 252 /\ pos + 4 <= Len(bytes)
    THEN [ok |-> TRUE,
          value |-> bytes[pos + 1] + 256 * bytes[pos + 2] + 65536 * bytes[pos + 3]
                    + 16777216 * bytes[pos + 4],
          pos |-> pos + 5]
    ELSE [ok |-> FALSE, value |-> 0, pos |-> pos]

\* a variant numbering that starts at 1
variant_index_from_one(block_type) ==
    CHOOSE i \in 1 .. Len(BlockTypes) : BlockTypes[i] = block_type

\* derive(Encode) for BlockType: the variant index
variant_index(block_type) ==
    (CHOOSE i \in 1 .. Len(BlockTypes) : BlockTypes[i] = block_type) - 1

encode_block_type(block_type) == encode_varint(variant_index(block_type))

\* derive(Decode) for BlockType: an index that names no variant is an error
decode_block_type(bytes, pos) ==
    LET variant(v) ==
            IF v.ok /\ v.value < Len(BlockTypes)
            THEN [ok |-> TRUE, value |-> BlockTypes[v.value + 1], pos |-> v.pos]
            ELSE [ok |-> FALSE, value |-> "Sand", pos |-> pos]
    IN  variant(decode_varint(bytes, pos))

\* an encoding that writes the entity after the block type
encode_block_with_entity(block) ==
    encode_block_type(block.block_type)
        \o (IF IsSome(block.entity) THEN <<1>> \o encode_varint(Unwrap(block.entity))
            ELSE <<0>>)

\* impl Encode for Block: the block type only
encode_block(block) == encode_block_type(block.block_type)

\* impl Decode for Block: the block type, entity None
decode_block(bytes, pos) ==
    LET block(t) == [ok |-> t.ok, value |-> Block(t.value, None), pos |-> t.pos]
    IN  block(decode_block_type(bytes, pos))

\* Option<Block>: a tag byte, then the block when there is one
encode_option_block(cell) ==
    IF IsSome(cell) THEN <<1>> \o encode_block(Unwrap(cell)) ELSE <<0>>

decode_option_block(bytes, pos) ==
    IF pos > Len(bytes) THEN [ok |-> FALSE, value |-> None, pos |-> pos]
    ELSE IF bytes[pos] = 0 THEN [ok |-> TRUE, value |-> None, pos |-> pos + 1]
    ELSE IF bytes[pos] = 1
    THEN LET some(b) == [ok |-> b.ok, value |-> Some(b.value), pos |-> b.pos]
         IN  some(decode_block(bytes, pos + 1))
    ELSE [ok |-> FALSE, value |-> None, pos |-> pos]

\* the cells of [[Option<Block>; CHUNK_WIDTH]; CHUNK_HEIGHT] in encoding order:
\* cell k (from 0) is blocks[k / CHUNK_WIDTH][k % CHUNK_WIDTH]
cell_of(blocks, k) == blocks[k \div CHUNK_WIDTH][k % CHUNK_WIDTH]

\* cells lo .. hi of the grid, encoded one after the other
RECURSIVE encode_cells(_, _, _)
encode_cells(blocks, lo, hi) ==
    IF lo = hi THEN encode_option_block(cell_of(blocks, lo))
    ELSE LET mid == (lo + hi) \div 2
         IN  encode_cells(blocks, lo, mid) \o encode_cells(blocks, mid + 1, hi)

\* n cells decoded one after the other from pos on
RECURSIVE decode_cells(_, _, _)
decode_cells(bytes, pos, n) ==
    LET one(c) == [ok |-> c.ok, cells |-> <<c.value>>, pos |-> c.pos]
        both(a, b) == [ok |-> b.ok, cells |-> a.cells \o b.cells, pos |-> b.pos]
        second(a) == IF ~a.ok THEN a
                     ELSE both(a, decode_cells(bytes, a.pos, n - (n \div 2)))
    IN  IF n = 1 THEN one(decode_option_block(bytes, pos))
        ELSE second(decode_cells(bytes, pos, n \div 2))

\* derive(Encode) for Chunk: blocks, then chunk_number
encode_chunk(chunk) ==
    encode_cells(chunk.blocks, 0, CHUNK_WIDTH * CHUNK_HEIGHT - 1)
        \o encode_varint(chunk.chunk_number)

\* derive(Decode) for Chunk
decode_chunk(bytes, pos) ==
    LET chunk(g, n) ==
            IF g.ok /\ n.ok
            THEN [ok |-> TRUE,
                  value |-> Chunk([y \in Rows |-> [x \in Cols |->
                                      g.cells[y * CHUNK_WIDTH + x + 1]]], n.value),
                  pos |-> n.pos]
            ELSE [ok |-> FALSE, value |-> ChunkEmpty(0), pos |-> pos]
        number(g) == chunk(g, decode_varint(bytes, g.pos))
    IN  number(decode_cells(bytes, pos, CHUNK_WIDTH * CHUNK_HEIGHT))

RECURSIVE encode_chunks(_)
encode_chunks(chunks) ==
    IF chunks = <<>> THEN <<>>
    ELSE encode_chunk(Head(chunks)) \o encode_chunks(Tail(chunks))

\* an encoding of the chunks one after the other without their number
encode_terrain_no_length(chunks) == encode_chunks(chunks)

\* derive(Encode) for Terrain: the length of chunks, then each chunk
encode_terrain(chunks) == encode_varint(Len(chunks)) \o encode_chunks(chunks)

RECURSIVE decode_chunks(_, _, _)
decode_chunks(bytes, pos, n) ==
    LET both(c, rest) == [ok |-> rest.ok, value |-> <<c.value>> \o rest.value,
                          pos |-> rest.pos]
        others(c) == IF ~c.ok THEN [ok |-> FALSE, value |-> <<>>, pos |-> pos]
                     ELSE both(c, decode_chunks(bytes, c.pos, n - 1))
    IN  IF n = 0 THEN [ok |-> TRUE, value |-> <<>>, pos |-> pos]
        ELSE others(decode_chunk(bytes, pos))

\* derive(Decode) for Terrain
decode_terrain(bytes, pos) ==
    LET chunks(n) == IF n.ok THEN decode_chunks(bytes, n.pos, n.value)
                     ELSE [ok |-> FALSE, value |-> <<>>, pos |-> pos]
    IN  chunks(decode_varint(bytes, pos))

\* bincode::encode_to_vec
encode_to_vec(kind, value) ==
    CASE kind = "block" -> encode_block(value)
      [] kind = "chunk" -> encode_chunk(value)
      [] kind = "terrain" -> encode_terrain(value)

\* bincode::decode_from_slice
decode_from_slice(kind, bytes) ==
    CASE kind = "block" -> decode_block(bytes, 1)
      [] kind = "chunk" -> decode_chunk(bytes, 1)
      [] kind = "terrain" -> decode_terrain(bytes, 1)

\* impl PartialEq for Block: entity ignored
block_eq(a, b) == a.block_type = b.block_type

\* Option<Block> equality
cell_eq(a, b) ==
    /\ IsSome(a) = IsSome(b)
    /\ IsSome(a) => block_eq(Unwrap(a), Unwrap(b))

\* derive(PartialEq) for Chunk
chunk_eq(a, b) ==
    /\ a.chunk_number = b.chunk_number
    /\ \A y \in Rows, x \in Cols : cell_eq(a.blocks[y][x], b.blocks[y][x])

\* derive(PartialEq) for Terrain
terrain_eq(a, b) ==
    /\ Len(a) = Len(b)
    /\ \A i \in 1 .. Len(a) : chunk_eq(a[i], b[i])

value_eq(kind, a, b) ==
    CASE kind = "block" -> block_eq(a, b)
      [] kind = "chunk" -> chunk_eq(a, b)
      [] kind = "terrain" -> terrain_eq(a, b)

\* ------------------------------------------------------------------ client
\* render_chunk: every block gets the entity spawned for it, column by column
\* and top to bottom within a column; first is the first entity id handed out
blocks_before(blocks, x, y) ==
    Cardinality({ c \in Cols \X Rows :
                    /\ IsSome(blocks[c[2]][c[1]])
                    /\ (c[1] < x \/ (c[1] = x /\ c[2] < y)) })

render_chunk(chunk, first) ==
    [chunk EXCEPT !.blocks =
        [y \in Rows |-> [x \in Cols |->
            IF IsSome(chunk.blocks[y][x])
            THEN Some([Unwrap(chunk.blocks[y][x]) EXCEPT
                          !.entity = Some(first + blocks_before(chunk.blocks, x, y))])
            ELSE None]]]

block_count(blocks) == blocks_before(blocks, CHUNK_WIDTH, 0)

\* the client after create_world
InitClient ==
    /\ base_seed \in 0 .. MaxStoreSeed
    /\ InitRest
    /\ terrain = TerrainEmpty

\* spawn_chunk: Chunk::new, render_chunk, push
SpawnChunk(chunk_number) ==
    /\ sent = NoValue
    /\ Len(terrain) < MaxClientChunks
    /\ terrain' = Append(terrain, render_chunk(world.new[chunk_number].chunk, next_entity))
    /\ next_entity' = next_entity + block_count(world.new[chunk_number].chunk.blocks)
    /\ UNCHANGED <<base_seed, world, destroyed, op, built, sent, wire, received>>

\* chunk.blocks[1][1] = Some(Block::new(BlockType::Limestone)), as the codec
\* tests change a block after generation
ChangeBlock(i) ==
    /\ sent = NoValue
    /\ terrain' = [terrain EXCEPT ![i].blocks[1][1] = Some(BlockNew("Limestone"))]
    /\ UNCHANGED <<base_seed, world, destroyed, op, built, next_entity, sent, wire, received>>

\* the cells a single block is encoded from
CodecCells == { <<1, 1>>, <<CHUNK_HEIGHT - 1, 0>> }

\* bincode::encode_to_vec on a block, a chunk or the terrain
Encode(kind, value) ==
    /\ sent = NoValue
    /\ sent' = [kind |-> kind, value |-> value]
    /\ wire' = encode_to_vec(kind, value)
    /\ received' = NoValue
    /\ UNCHANGED <<base_seed, world, destroyed, terrain, op, built, next_entity>>

EncodeBlock ==
    \E i \in 1 .. Len(terrain), c \in CodecCells :
        /\ IsSome(terrain[i].blocks[c[1]][c[2]])
        /\ Encode("block", Unwrap(terrain[i].blocks[c[1]][c[2]]))

EncodeChunk == \E i \in 1 .. Len(terrain) : Encode("chunk", terrain[i])

EncodeTerrain == Encode("terrain", terrain)

\* bincode::decode_from_slice on the bytes last encoded
Decode ==
    /\ sent # NoValue
    /\ received = NoValue
    /\ LET result(d) == IF d.ok /\ d.pos = Len(wire) + 1
                         THEN [kind |-> sent.kind, value |-> d.value]
                         ELSE [kind |-> "error"]
       IN  received' = result(decode_from_slice(sent.kind, wire))
    /\ UNCHANGED <<base_seed, world, destroyed, terrain, op, built, next_entity, sent, wire>>

NextCodec ==
    \/ \E chunk_number \in {0, MaxChunkNumber} : SpawnChunk(chunk_number)
    \/ \E i \in 1 .. Len(terrain) : ChangeBlock(i)
    \/ DestroyBlock(0, CHUNK_HEIGHT - 1)
    \/ EncodeBlock
    \/ EncodeChunk
    \/ EncodeTerrain
    \/ Decode

SpecCodec == InitClient /\ [][NextCodec]_vars

\* ------------------------------------------------- properties of the store
\* C1: after create_world and any number of check_generate_new_chunks runs,
\* the chunk at index i of terrain.chunks has chunk_number i (indices from 0):
\* the numbers present are exactly 0 .. len - 1, no gap and no duplicate.
NoGaps ==
    \A i \in 1 .. Len(terrain) : terrain[i].chunk_number = i - 1

\* C2: after a run of check_generate_new_chunks, for every player chunk depth
\* d the store holds a chunk numbered d, one numbered d + 1 and one numbered
\* d + 2.
GeneratedAhead ==
    op.name = "check_generate_new_chunks" =>
        \A k \in 1 .. Len(op.players) : \A offset \in 0 .. GEN_CHUNKS_AHEAD - 1 :
            \E i \in 1 .. Len(terrain) :
                terrain[i].chunk_number = op.players[k] + offset

\* C3: a destroy_block(x, y) with x < CHUNK_WIDTH whose chunk y / CHUNK_HEIGHT
\* is in the store (the first chunk with that number) and whose cell
\* [y % CHUNK_HEIGHT][x] holds a block returns Ok with a block of that
\* block_type and leaves the cell empty, and the same call on the store it
\* leaves returns BlockDoesntExist.
DestroySucceeds ==
    [][ LET x == op'.x
            y == op'.y
            i == find_chunk(terrain, y \div CHUNK_HEIGHT)
        IN  ( /\ op'.name = "destroy_block"
              /\ x < CHUNK_WIDTH
              /\ i # 0
              /\ IsSome(terrain[i].blocks[y % CHUNK_HEIGHT][x]) )
            => /\ op'.kind = "Ok"
               /\ IsSome(op'.block)
               /\ Unwrap(op'.block).block_type =
                      Unwrap(terrain[i].blocks[y % CHUNK_HEIGHT][x]).block_type
               /\ i = find_chunk(terrain', y \div CHUNK_HEIGHT)
               /\ terrain'[i].blocks[y % CHUNK_HEIGHT][x] = None
               /\ destroy_block(x, y, terrain').kind = "BlockDoesntExist" ]_vars

\* a block was destroyed and handed back
DestroySucceeded ==
    /\ op.name = "destroy_block"
    /\ op.kind = "Ok"
    /\ IsSome(op.block)
    /\ destroyed = 1

\* C4: destroy_block never panics and classifies in a fixed order: InvalidX
\* whenever x >= CHUNK_WIDTH, whatever y is; otherwise ChunkNotLoaded when no
\* chunk has number y / CHUNK_HEIGHT; otherwise BlockDoesntExist when the
\* cell is empty; otherwise Ok.
DestroyClassified ==
    [][ op'.name = "destroy_block" =>
          LET x == op'.x
              y == op'.y
              loaded == { i \in 1 .. Len(terrain) :
                            terrain[i].chunk_number = y \div CHUNK_HEIGHT }
              first == CHOOSE i \in loaded : \A j \in loaded : i <= j
          IN  /\ op'.kind # "Panic"
              /\ op'.kind =
                    IF x >= CHUNK_WIDTH THEN "InvalidX"
                    ELSE IF loaded = {} THEN "ChunkNotLoaded"
                    ELSE IF terrain[first].blocks[y % CHUNK_HEIGHT][x] = None
                    THEN "BlockDoesntExist"
                    ELSE "Ok" ]_vars

\* InvalidX was returned for a y whose chunk is not in the store
InvalidXBeforeChunkNotLoaded ==
    /\ op.name = "destroy_block"
    /\ op.kind = "InvalidX"
    /\ op.x = CHUNK_WIDTH
    /\ \A i \in 1 .. Len(terrain) : terrain[i].chunk_number # op.y \div CHUNK_HEIGHT

\* ---------------------------------------------- properties of the builders
\* the cave noise of cell (y, x) of the chunk last built exceeds the threshold
Carved(y, x) ==
    generate_perlin_noise(built.depth, base_seed, y, x) > PERLIN_CAVE_THRESHOLD

\* C8: when chunk n > 0 is built, the vein list holds every vein originating
\* in chunk n - 1 (generated with origin chunk n - 1) and every vein
\* originating in chunk n, and a non-carved cell (x, y) within thickness_sq / 2
\* of a chunk n - 1 vein, measured at row y + CHUNK_HEIGHT, holds an ore block.
VeinsBleedIntoNextChunk ==
    (built.kind = "new" /\ built.depth > 0) =>
        LET n == built.depth
            veins == built.locals.veins
            prev == { VeinNew(n - 1, v) :
                        v \in 0 .. generate_random_vein_count(base_seed, n - 1) - 1 }
            curr == { VeinNew(n, v) :
                        v \in 0 .. generate_random_vein_count(base_seed, n) - 1 }
        IN  /\ \A vein \in prev \cup curr : \E i \in 1 .. Len(veins) : veins[i] = vein
            /\ \A y \in Rows : \A x \in Cols :
                    ( /\ ~Carved(y, x)
                      /\ \E vein \in prev : InVein(vein, x, y + CHUNK_HEIGHT) )
                    => /\ IsSome(built.chunk.blocks[y][x])
                       /\ Unwrap(built.chunk.blocks[y][x]).block_type \in OreBlocks

\* C9: in a chunk built by Chunk::new every cell whose cave noise exceeds
\* PERLIN_CAVE_THRESHOLD holds no primary and no ore block, whatever the biome
\* rule and the vein tests selected: it is empty, or Trunk, or Leaves.
CaveCarvingWins ==
    built.kind = "new" =>
        \A y \in Rows : \A x \in Cols :
            Carved(y, x) =>
                \/ built.chunk.blocks[y][x] = None
                \/ Unwrap(built.chunk.blocks[y][x]).block_type \in {"Trunk", "Leaves"}

\* a chunk was built in which a vein passes through a carved cell and a tree
\* stands in another
CarvedThroughVeinWithTree ==
    /\ built.kind = "new"
    /\ \E y \in Rows : \E x \in Cols :
           Carved(y, x) /\ in_some_vein(built.locals, x, y)
    /\ \E y \in Rows : \E x \in Cols :
           /\ Carved(y, x)
           /\ built.chunk.blocks[y][x] = Some(BlockNew("Trunk"))

\* C10: for chunk n > 0 the backward walk makes at most n decision calls and
\* yields the biome of the largest m < n whose decision returns one, Sand
\* when there is none; for n = 0 the previous biome is Sand.  The new biome is
\* the chunk's own decision when it returns one, else the previous biome.
PrevBiomeResolved ==
    built.kind = "new" =>
        LET n == built.depth
            transitions == { m \in 0 .. n - 1 :
                               IsSome(generate_chunk_biome_change(base_seed, m)) }
            last == CHOOSE m \in transitions : \A k \in transitions : k <= m
            own == generate_chunk_biome_change(base_seed, n)
        IN  /\ built.locals.calls <= n
            /\ built.locals.prev_biome =
                  IF transitions = {} THEN "Sand"
                  ELSE Unwrap(generate_chunk_biome_change(base_seed, last))
            /\ built.locals.biome_change =
                  IF IsSome(own) THEN Unwrap(own) ELSE built.locals.prev_biome

\* a chunk was built whose walk passed over a chunk without a transition, found
\* one further back, and whose own decision returns another biome
WalkedBackToTransition ==
    /\ built.kind = "new"
    /\ built.depth >= 2
    /\ built.locals.calls >= 2
    /\ generate_chunk_biome_change(base_seed, built.depth - 1) = None
    /\ built.locals.prev_biome # "Sand"
    /\ IsSome(generate_chunk_biome_change(base_seed, built.depth))
    /\ built.locals.biome_change # built.locals.prev_biome

\* ------------------------------------------------- properties of the codec
\* C6: decode(encode(x)) succeeds and equals x under the equality that compares
\* block_type only, for a Block, a Chunk and a Terrain, cells cleared or
\* changed after generation included.
CodecRoundTrip ==
    received # NoValue =>
        /\ received.kind = sent.kind
        /\ value_eq(sent.kind, received.value, sent.value)

\* a terrain of two chunks, one block destroyed and one block changed, was
\* encoded and decoded
TerrainWentRound ==
    /\ received.kind = "terrain"
    /\ Len(sent.value) = 2
    /\ destroyed = 1
    /\ \E i \in 1 .. 2 : sent.value[i].blocks[1][1] = Some(BlockNew("Limestone"))

\* C7: the entity of a block never reaches the bytes: the bytes of a block
\* are those of the block of the same block_type without entity, whether or
\* not an entity was attached before encoding, and every decoded block has
\* entity None.
EntityNeverEncoded ==
    LET bare(cell) == IF IsSome(cell) THEN Some(BlockNew(Unwrap(cell).block_type))
                      ELSE None
        bare_chunk(chunk) ==
            Chunk([y \in Rows |-> [x \in Cols |-> bare(chunk.blocks[y][x])]],
                  chunk.chunk_number)
        no_entity(chunk) ==
            \A y \in Rows : \A x \in Cols :
                IsSome(chunk.blocks[y][x]) => Unwrap(chunk.blocks[y][x]).entity = None
    IN  /\ sent.kind = "block" =>
               wire = encode_to_vec("block", BlockNew(sent.value.block_type))
        /\ sent.kind = "chunk" =>
               wire = encode_to_vec("chunk", bare_chunk(sent.value))
        /\ sent.kind = "terrain" =>
               wire = encode_to_vec("terrain",
                          [i \in 1 .. Len(sent.value) |-> bare_chunk(sent.value[i])])
        /\ received.kind = "block" => received.value.entity = None
        /\ received.kind = "chunk" => no_entity(received.value)
        /\ received.kind = "terrain" =>
               \A i \in 1 .. Len(received.value) : no_entity(received.value[i])

\* a block that render_chunk gave an entity was encoded and decoded, in a
\* store that also holds a block without entity
RenderedBlockWentRound ==
    /\ sent.kind = "block"
    /\ IsSome(sent.value.entity)
    /\ received.kind = "block"
    /\ \E i \in 1 .. Len(terrain) : terrain[i].blocks[1][1] = Some(BlockNew("Limestone"))

\* ------------------------------------------ properties of the surface chunk
\* block types of the Sand and of the Sedimentary biome
SandLayerTypes == {primary_block("Sand"), ore_block("Sand")}
SedimentaryLayerTypes == {primary_block("Sedimentary"), ore_block("Sedimentary")}

\* in every column of the surface chunk last built, every row from hill_top to
\* the bottom holds a block of the Sand biome when row <= sand_depth and of the
\* Sedimentary biome otherwise
SurfaceLayersFilled ==
    \A x \in Cols : \A y \in Rows :
        y >= hill_top(built.locals, x) =>
            /\ IsSome(built.chunk.blocks[y][x])
            /\ Unwrap(built.chunk.blocks[y][x]).block_type \in
                  (IF y <= sand_depth(built.locals, x) THEN SandLayerTypes
                   ELSE SedimentaryLayerTypes)

\* C11 as stated: the surface chunk holds sand and sedimentary layers only:
\* every non-empty cell holds a block type of the Sand or the Sedimentary
\* biome, none is cave void, and every row from the hill line down is filled
\* with the layer its row selects.
SurfaceSandAndSedimentaryOnly ==
    built.kind = "surface" =>
        /\ \A x \in Cols : \A y \in Rows :
               IsSome(built.chunk.blocks[y][x]) =>
                   Unwrap(built.chunk.blocks[y][x]).block_type \in
                       SandLayerTypes \cup SedimentaryLayerTypes
        /\ SurfaceLayersFilled

\* C11 amended: every row from the hill line down is filled with the layer
\* its row selects, no cell is cave void, and a cell above the hill line is
\* empty unless it is the PalmTreeBlock at row hill_top(x) - 1 of a column
\* whose tree draw is 1.
SurfaceLayersAndPalms ==
    built.kind = "surface" =>
        /\ SurfaceLayersFilled
        /\ \A x \in Cols : \A y \in Rows :
               /\ built.chunk.blocks[y][x] # Some(BlockNew("CaveVoid"))
               /\ y < hill_top(built.locals, x) =>
                     IF y = hill_top(built.locals, x) - 1
                        /\ built.locals.random_trees[x + 1] = 1
                     THEN built.chunk.blocks[y][x] = Some(BlockNew("PalmTreeBlock"))
                     ELSE built.chunk.blocks[y][x] = None

\* a surface chunk was built that has a palm tree, a vein cell and a column
\* whose sand layer reaches below the hill line
SurfaceWithPalmAndVein ==
    /\ built.kind = "surface"
    /\ \E x \in Cols : \E y \in Rows :
           built.chunk.blocks[y][x] = Some(BlockNew("PalmTreeBlock"))
    /\ \E x \in Cols : \E y \in Rows :
           /\ IsSome(built.chunk.blocks[y][x])
           /\ Unwrap(built.chunk.blocks[y][x]).block_type \in OreBlocks
    /\ \E x \in Cols : sand_depth(built.locals, x) >= hill_top(built.locals, x)

\* --------------------------------------------------- properties of biomes
\* C12: primary_block is injective, ore_block is injective, and no block type
\* is both a primary block and an ore block: stated for each biome of the
\* chunk last built against every one of the six biomes.
BiomeBlocksDistinct ==
    built.kind = "new" =>
        \A a \in {built.locals.prev_biome, built.locals.biome_change} :
            \A j \in 1 .. Len(BiomeTypes) :
                /\ primary_block(a) = primary_block(BiomeTypes[j]) => a = BiomeTypes[j]
                /\ ore_block(a) = ore_block(BiomeTypes[j]) => a = BiomeTypes[j]
                /\ primary_block(a) # ore_block(BiomeTypes[j])
                /\ ore_block(a) # primary_block(BiomeTypes[j])

\* a chunk was built across a transition between two biomes, holding the
\* primary block of each and an ore block
TwoBiomesInOneChunk ==
    /\ built.kind = "new"
    /\ built.locals.prev_biome # built.locals.biome_change
    /\ \A b \in {built.locals.prev_biome, built.locals.biome_change} :
           \E y \in Rows : \E x \in Cols :
               built.chunk.blocks[y][x] = Some(BlockNew(primary_block(b)))
    /\ \E y \in Rows : \E x \in Cols :
           /\ IsSome(built.chunk.blocks[y][x])
           /\ Unwrap(built.chunk.blocks[y][x]).block_type \in OreBlocks

\* --------------------------------------------------- properties of sizes
\* C13: the bytes of a Terrain holding one chunk are strictly more than the
\* bytes of that chunk, which are strictly more than the bytes of one Block.
EncodedSizeOrdering ==
    LET block_sizes == { Len(encode_to_vec("block", BlockNew(BlockTypes[i]))) :
                            i \in 1 .. Len(BlockTypes) }
    IN  /\ (sent.kind = "terrain" /\ Len(sent.value) = 1) =>
               /\ Len(wire) > Len(encode_to_vec("chunk", sent.value[1]))
               /\ \A size \in block_sizes :
                      Len(encode_to_vec("chunk", sent.value[1])) > size
        /\ sent.kind = "chunk" => \A size \in block_sizes : Len(wire) > size

\* a terrain holding one generated chunk was encoded
OneChunkTerrainEncoded ==
    /\ sent.kind = "terrain"
    /\ Len(sent.value) = 1
    /\ Len(wire) > 0
    /\ destroyed = 0

\* ------------------------------------------ properties of the store, frame
\* C14: a destroy_block that returns an error leaves the store unchanged; one
\* that returns Ok changes one cell of one chunk from a block to empty and
\* nothing else: every other cell, every chunk_number and the number and
\* order of the chunks stay.
DestroyFrame ==
    [][ op'.name = "destroy_block" =>
          IF op'.kind = "Ok"
          THEN \E i \in 1 .. Len(terrain) :
                   /\ terrain[i].blocks[op'.y % CHUNK_HEIGHT][op'.x] # None
                   /\ terrain' = [terrain EXCEPT
                                     ![i].blocks[op'.y % CHUNK_HEIGHT][op'.x] = None]
          ELSE terrain' = terrain ]_vars

\* a block was destroyed in a store that holds the block's chunk number twice
DestroyedInDuplicatedChunk ==
    /\ op.name = "destroy_block"
    /\ op.kind = "Ok"
    /\ Cardinality({ i \in 1 .. Len(terrain) :
                       terrain[i].chunk_number = op.y \div CHUNK_HEIGHT }) = 2

\* C15: no run of check_generate_new_chunks appends a chunk whose chunk_number
\* is already in the store, one appended earlier in the same run included.
AppendsOnlyMissing ==
    [][ op'.name = "check_generate_new_chunks" =>
          \A j \in Len(terrain) + 1 .. Len(terrain') :
              \A i \in 1 .. j - 1 :
                  terrain'[i].chunk_number # terrain'[j].chunk_number ]_vars

\* ---------------------------------------------- properties of the curves
\* the control-point vectors the builder of the chunk last built samples
SampledCurves ==
    IF built.kind = "new" THEN {built.locals.biome_change_depths}
    ELSE IF built.kind = "surface"
    THEN {built.locals.random_vals, built.locals.random_sand_depths}
    ELSE {}

\* C16: for every slice_pos_x call of the builders (16, 32 and 64 control
\* points) and every column x of a chunk, the index i = x / (width / count + 1)
\* has i + 1 < count, so control_points[i + 1] exists; stated at the width of
\* the program (128 columns) and at the width of this model.
CurveSamplingInBounds ==
    \A r \in SampledCurves :
        /\ \A x \in 0 .. FullChunkWidth - 1 :
               slice_index(FullChunkWidth, x, Len(r)) + 1 < Len(r)
        /\ \A x \in Cols :
               slice_index(CHUNK_WIDTH, x, Len(r)) + 1 < Len(r)

\* the surface builder sampled its curves of 16 and 32 control points, and at
\* the last of 128 columns the curve of 16 is read at its last control point
LastControlPointRead ==
    /\ built.kind = "surface"
    /\ { Len(r) : r \in SampledCurves } = {16, 32}
    /\ slice_index(FullChunkWidth, FullChunkWidth - 1, 16) + 1 = 15

\* ------------------------------------------ properties of tree placement
\* the cells <<row, column>> tree placement reads or writes for a void cell
\* (y, x) that passed the guards on y and x, on the grid `blocks`, when every
\* test on the grid's content lets it go on
tree_cells(blocks, x, y) ==
    LET max == tree_top(x, y, clearance_max(blocks, x, y))
    IN  {<<y + 1, x - 2>>} \cup { <<h, x - 2>> : h \in 0 .. y }
            \cup (IF y - max > 2
                  THEN structure_fit_cells(x, max) \cup trunk_cells(x, y, max)
                           \cup leaf_cells(x, max)
                  ELSE {})

\* C17: for every cell (y, x) with x > 4, y > 4 and y < CHUNK_HEIGHT - 1, on
\* the grid of every chunk built, every cell the clearance search,
\* structure_fit, the trunk loop and the leaf writes touch lies in rows
\* 0 .. CHUNK_HEIGHT - 1 and columns 0 .. CHUNK_WIDTH - 1, and the height draw
\* is made from a non-empty range [max, y) and stays in it.
TreePlacementInGrid ==
    built.kind = "new" =>
        \A x \in Cols : \A y \in Rows :
            (x > 4 /\ y > 4 /\ y < CHUNK_HEIGHT - 1) =>
                LET max0 == clearance_max(built.chunk.blocks, x, y)
                    max == tree_top(x, y, max0)
                IN  /\ tree_cells(built.chunk.blocks, x, y) \subseteq Rows \X Cols
                    /\ y - max0 > 2 => (max0 < y /\ max0 <= max /\ max < y)

\* a chunk was built in which a tree was placed from a void cell of the last
\* column (its right-hand leaves are in column CHUNK_WIDTH - 2), with a trunk
\* below the leaves
TreePlacedFromLastColumn ==
    /\ built.kind = "new"
    /\ \E y \in Rows :
           /\ built.chunk.blocks[y][CHUNK_WIDTH - 2] = Some(BlockNew("Leaves"))
           /\ built.chunk.blocks[y][CHUNK_WIDTH - 3] = Some(BlockNew("Leaves"))
           /\ \E h \in Rows :
                  h > y /\ built.chunk.blocks[h][CHUNK_WIDTH - 3] = Some(BlockNew("Trunk"))

\* ------------------------------------------- properties of block selection
\* C18: in a chunk built by Chunk::new every cell holding a block other than
\* Trunk or Leaves holds the primary or the ore block of the biome its row
\* selects (the new biome from the boundary row of its column on, the
\* previous biome above it), the ore block only within thickness_sq / 2 of a
\* vein of the vein list, and the boundary row of no column is below zero.
RowSelectsBiome ==
    built.kind = "new" =>
        \A x \in Cols :
            LET boundary_row == slice_pos_x_round(x, built.locals.biome_change_depths) - 1
            IN  /\ boundary_row >= 0
                /\ \A y \in Rows :
                       LET cell == built.chunk.blocks[y][x]
                           biome == IF y >= boundary_row THEN built.locals.biome_change
                                    ELSE built.locals.prev_biome
                           veins == built.locals.veins
                       IN  (IsSome(cell) /\ Unwrap(cell).block_type \notin {"Trunk", "Leaves"})
                           => /\ Unwrap(cell).block_type \in
                                     {primary_block(biome), ore_block(biome)}
                              /\ Unwrap(cell).block_type = ore_block(biome) =>
                                     \E i \in 1 .. Len(veins) :
                                         InVein(veins[i], x,
                                                y + (IF built.depth > veins[i].chunk_number
                                                     THEN CHUNK_HEIGHT ELSE 0))

\* a chunk was built across a transition whose boundary row differs between
\* columns and which holds the ore block of both biomes
BoundaryWithOreOnBothSides ==
    /\ built.kind = "new"
    /\ built.locals.prev_biome # built.locals.biome_change
    /\ \E x1 \in Cols : \E x2 \in Cols :
           biome_change_ypos(built.locals, x1) # biome_change_ypos(built.locals, x2)
    /\ \A b \in {built.locals.prev_biome, built.locals.biome_change} :
           \E y \in Rows : \E x \in Cols :
               built.chunk.blocks[y][x] = Some(BlockNew(ore_block(b)))

\* ------------------------------------------------ properties of cave void
\* C19: in every reachable terrain store, after any builds, appends and
\* destroy_block calls, no cell holds a block whose block_type is CaveVoid.
CaveVoidNeverStored ==
    \A i \in 1 .. Len(terrain) : \A y \in Rows : \A x \in Cols :
        IsSome(terrain[i].blocks[y][x]) =>
            Unwrap(terrain[i].blocks[y][x]).block_type # "CaveVoid"

\* the store holds a chunk with a carved cell, which is empty, and a block was
\* destroyed
StoreWithCarvedCell ==
    /\ destroyed = 1
    /\ \E i \in 2 .. Len(terrain) : \E y \in Rows : \E x \in Cols :
           /\ generate_perlin_noise(terrain[i].chunk_number, base_seed, y, x)
                  > PERLIN_CAVE_THRESHOLD
           /\ terrain[i].blocks[y][x] = None
           /\ y # CHUNK_HEIGHT - 1

\* ------------------------------------------------ properties of the lookup
\* C20: block_exists(x, y) is true exactly when destroy_block(x, y) on the
\* same store would return Ok, it changes nothing in the store, and after a
\* successful destroy_block(x, y) block_exists(x, y) is false.
BlockExistsAgrees ==
    [][ /\ op'.name = "block_exists" =>
              /\ (op'.kind = "true") =
                     (destroy_block(op'.x, op'.y, terrain).kind = "Ok")
              /\ terrain' = terrain
        /\ (op'.name = "destroy_block" /\ op'.kind = "Ok") =>
              ~block_exists(op'.x, op'.y, terrain') ]_vars

\* block_exists returned false for the cell whose block was destroyed
AskedForDestroyedBlock ==
    /\ op.name = "block_exists"
    /\ op.kind = "false"
    /\ op.x < CHUNK_WIDTH
    /\ destroyed = 1
    /\ LET i == find_chunk(terrain, op.y \div CHUNK_HEIGHT)
       IN  /\ i # 0
           /\ IsSome((IF i = 1 THEN world.surface.chunk
                       ELSE world.new[terrain[i].chunk_number].chunk)
                          .blocks[op.y % CHUNK_HEIGHT][op.x])

\* ---------------------------------------- properties of biome continuity
\* the rock of a biome: its primary block and its ore block
biome_rock(biome) == {primary_block(biome), ore_block(biome)}

\* every block type a biome selects
RockTypes == UNION { biome_rock(BiomeTypes[i]) : i \in 1 .. Len(BiomeTypes) }

\* C21: for every n >= 0 the previous biome Chunk::new(n + 1) resolves is the
\* new biome Chunk::new(n) resolves, and a chunk whose own decision returns no
\* biome has previous biome equal to new biome; so the rock above the boundary
\* row of chunk n + 1 and the rock of the bottom row of chunk n are of the same
\* biome.
BiomeContinuity ==
    built.kind = "new" =>
        LET l == built.locals
            own == generate_chunk_biome_change(base_seed, built.depth)
        IN  /\ (own = None) => (l.prev_biome = l.biome_change)
            /\ built.depth > 0 =>
                  LET above == world.new[built.depth - 1]
                      style == biome_rock(above.locals.biome_change)
                  IN  /\ l.prev_biome = above.locals.biome_change
                      /\ \A x \in Cols :
                             LET bottom == above.chunk.blocks[CHUNK_HEIGHT - 1][x]
                             IN  (IsSome(bottom) /\ Unwrap(bottom).block_type \in RockTypes)
                                 => Unwrap(bottom).block_type \in style
                      /\ \A x \in Cols : \A y \in 0 .. biome_change_ypos(l, x) - 1 :
                             LET top == built.chunk.blocks[y][x]
                             IN  (IsSome(top) /\ Unwrap(top).block_type \in RockTypes)
                                 => Unwrap(top).block_type \in style

\* the previous biome of chunk n + 1 is the new biome of chunk n, and the first
\* row of chunk n + 1 holds only rock of that biome
BiomeContinuityToTopRow ==
    (built.kind = "new" /\ built.depth > 0) =>
        LET style == biome_rock(world.new[built.depth - 1].locals.biome_change)
        IN  /\ built.locals.prev_biome = world.new[built.depth - 1].locals.biome_change
            /\ \A x \in Cols :
                   LET top == built.chunk.blocks[0][x]
                   IN  (IsSome(top) /\ Unwrap(top).block_type \in RockTypes)
                       => Unwrap(top).block_type \in style

\* a chunk below another was built with a transition of its own to another
\* biome, whose boundary is row 0 in one column and lower in another: its first
\* row holds rock of its new biome in the first and of the new biome of the
\* chunk above in the second, as the bottom row of the chunk above does
BoundaryAtFirstRowAndBelow ==
    /\ built.kind = "new"
    /\ built.depth > 0
    /\ built.locals.prev_biome # built.locals.biome_change
    /\ \E x \in Cols :
           /\ biome_change_ypos(built.locals, x) = 0
           /\ IsSome(built.chunk.blocks[0][x])
           /\ Unwrap(built.chunk.blocks[0][x]).block_type
                  \in biome_rock(built.locals.biome_change)
    /\ \E x \in Cols :
           /\ biome_change_ypos(built.locals, x) > 0
           /\ IsSome(built.chunk.blocks[0][x])
           /\ Unwrap(built.chunk.blocks[0][x]).block_type
                  \in biome_rock(built.locals.prev_biome)
    /\ \E x \in Cols :
           LET bottom == world.new[built.depth - 1].chunk.blocks[CHUNK_HEIGHT - 1][x]
           IN  /\ IsSome(bottom)
               /\ Unwrap(bottom).block_type \in biome_rock(built.locals.prev_biome)

====
